---- MODULE Spec2Model ----
(***************************************************************************)
(* Model of src/server.js.  The file holds three variants of the same     *)
(* backend, one after the other:                                          *)
(*   "tikwm"    lines    1 -  442  (scripted fetch inside a shared page)   *)
(*   "countik"  lines  444 -  814  (scroll loop, responses intercepted)    *)
(*   "browser"  lines  816 - 1041  (page navigation, headless -> headful)  *)
(* A run of the program is a run of one variant; `variant' is fixed by     *)
(* Init and every handler is translated per variant.                       *)
(*                                                                         *)
(* Spec      : the request handlers and the scheduled jobs working on the  *)
(*             two JSON files (watch list, view history).  A handler is    *)
(*             split at its `await performScrape(...)': what runs before   *)
(*             it is one action, what runs after it is another.            *)
(* SpecWalk  : one harvest (fetchVideosFrom... / fetchVideosViaBrowser),   *)
(*             one action per loop iteration.                              *)
(* SpecCount : the same harvest with only its page requests counted.       *)
(* SpecMetric: one view-count string through parseViewCount and            *)
(*             formatViewCount.                                            *)
(* SpecSession: the shared browser (initBrowser, the readiness check of    *)
(*             fetchVideosFromTikWM, getBrowser), one action per await.    *)
(***************************************************************************)
EXTENDS Integers, Sequences, FiniteSets, TLC

\* ------------------------------------------------------------------ bounds
\* number of /views requests that may be in flight at once
NumSlots == 2
\* number of operations (requests, scheduled jobs) started in one run
MaxOps == 2

\* The harvest loops, scaled down.  The source has TARGET_VIDEO_COUNT = 200
\* (MAX_VIDEOS_TO_SCRAPE in countik), count=33 items asked per page,
\* MAX_LOOPS = 10 (tikwm), maxLoops = 50 and a stall limit of 6 (countik).
\* The scaled values keep their order: PAGE_COUNT * MAX_LOOPS >= the target,
\* MAX_LOOPS < the target - 1, the stall limit + 1 < MAX_LOOPS < maxLoops.
TARGET_VIDEO_COUNT == 6
MAX_VIDEOS_TO_SCRAPE == 6
PAGE_COUNT == 2
MAX_LOOPS == 4
maxLoops == 5
StallLimit == 2
\* attempts of one harvest whose classification and mode are recorded
MaxLog == 3
\* view-count strings "x.y", "x.yK", "x.yM" with x in 0 .. MaxWhole
MaxWhole == 1000

Variants == {"tikwm", "countik", "browser"}
\* video ids and view counts the source may report
IdOrder == <<"v1", "v2">>
Ids == {IdOrder[i] : i \in DOMAIN IdOrder}
Views == {0, 5}
\* raw ?user= values; a handle is a sequence of characters
RawUsers == { <<"@", "a">>, <<"a", " ">>, <<"b">> }

None == "none"

\* ------------------------------------------------------------------ helpers
RECURSIVE SeqToSet(_)
SeqToSet(s) == IF s = <<>> THEN {} ELSE {Head(s)} \cup SeqToSet(Tail(s))

\* every sequence over S of length 0..n
RECURSIVE SeqsUpTo(_, _)
SeqsUpTo(S, n) ==
    IF n = 0 THEN {<<>>}
    ELSE LET shorter == SeqsUpTo(S, n - 1)
         IN  shorter \cup {Append(q, x) : q \in shorter, x \in S}

\* String.prototype.replace('@', ''): only the first occurrence goes
RECURSIVE ReplaceFirstAt(_)
ReplaceFirstAt(s) ==
    IF s = <<>> THEN <<>>
    ELSE IF Head(s) = "@" THEN Tail(s)
    ELSE <<Head(s)>> \o ReplaceFirstAt(Tail(s))

RECURSIVE TrimLeft(_)
TrimLeft(s) == IF s # <<>> /\ Head(s) = " " THEN TrimLeft(Tail(s)) ELSE s

RECURSIVE TrimRight(_)
TrimRight(s) ==
    IF s # <<>> /\ s[Len(s)] = " " THEN TrimRight(SubSeq(s, 1, Len(s) - 1)) ELSE s

Trim(s) == TrimRight(TrimLeft(s))

\* user.toString().replace('@', '').trim()
CleanUser(raw) == Trim(ReplaceFirstAt(raw))

Handles == {CleanUser(r) : r \in RawUsers}

\* ------------------------------------------------------------------ files
\* a JSON object as a function; {} is the function with the empty domain
EmptyObj == [x \in {} |-> 0]

HasKey(obj, k) == k \in DOMAIN obj

\* obj[k] = v
Put(obj, k, v) == [x \in (DOMAIN obj) \cup {k} |-> IF x = k THEN v ELSE obj[x]]

\* globalHistory[user] || {}
UserHistory(gh, user) == IF HasKey(gh, user) THEN gh[user] ELSE EmptyObj


\* Object.keys(obj) / Object.entries(obj), listed in the order of IdOrder
Keys(obj) == SelectSeq(IdOrder, LAMBDA k : k \in DOMAIN obj)

\* ------------------------------------------------------------------ scrape results
\* a normalized video: { id, numericViews } (url, cover, views derive from them)
Videos == [id : Ids, numericViews : Views]

\* the lists a harvest may return, ids in the order of IdOrder (a repeated id
\* next to its first occurrence)
IdRank(id) == CHOOSE i \in DOMAIN IdOrder : IdOrder[i] = id

VideoLists ==
    {l \in SeqsUpTo(Videos, Cardinality(Ids)) :
        \A i, j \in DOMAIN l : i < j => IdRank(l[i].id) <= IdRank(l[j].id)}

UniqueIds(l) == \A i, j \in DOMAIN l : l[i].id = l[j].id => i = j

ScrapeOk(l) == [error |-> None, videos |-> l]
ScrapeError(e) == [error |-> e, videos |-> <<>>]

\* What performScrape (tikwm, countik) or fetchVideosViaBrowser (browser) can
\* hand to its caller: "notfound" is the tikwm message the handler maps to 404.
\*   tikwm   de-duplicates and may return an empty list without an error
\*   countik collects into a Map and throws on an empty one
\*   browser throws on an empty list and does not de-duplicate
UniqueLists == {x \in VideoLists : UniqueIds(x)}

ScrapeResultsTikwm ==
    {ScrapeError("notfound"), ScrapeError("failed")}
    \cup {ScrapeOk(l) : l \in UniqueLists}

ScrapeResultsCountik ==
    {ScrapeError("failed")} \cup {ScrapeOk(l) : l \in UniqueLists \ {<<>>}}

ScrapeResultsBrowser ==
    {ScrapeError("failed")} \cup {ScrapeOk(l) : l \in VideoLists \ {<<>>}}

ScrapeResults(v) ==
    CASE v = "tikwm" -> ScrapeResultsTikwm
      [] v = "countik" -> ScrapeResultsCountik
      [] v = "browser" -> ScrapeResultsBrowser

\* ------------------------------------------------------------------ diff
\* Percentages are kept in hundredths: 50.00 is 5000.
Hundred == 100

\* parseFloat(x.toFixed(2)) for x = num / den, den > 0, in hundredths:
\* the nearest hundredth, away from zero on a tie
ToFixed2(num, den) ==
    IF num >= 0 THEN (2 * num * Hundred + den) \div (2 * den)
    ELSE 0 - ((2 * (0 - num) * Hundred + den) \div (2 * den))

\* the `else if (change > 0) changePercent = 100' branch exists in tikwm and
\* countik, not in browser
HasZeroBaselineRule(v) == v \in {"tikwm", "countik"}

\* the body of finalVideos.map(video => ...): change and changePercent of one
\* video against the userHistory object
DiffVideo(v, userHistory, video) ==
    LET known == HasKey(userHistory, video.id)
        previousViews == IF known THEN userHistory[video.id] ELSE 0
        change == IF known THEN video.numericViews - previousViews ELSE 0
        changePercent ==
            IF ~known THEN 0
            ELSE IF previousViews > 0
                 THEN ToFixed2(change * Hundred, previousViews)
            ELSE IF change > 0 /\ HasZeroBaselineRule(v) THEN Hundred * Hundred
            ELSE 0
    IN  [id |-> video.id, numericViews |-> video.numericViews,
         change |-> change, changePercent |-> changePercent]

\* tikwm, countik: userHistory is only read while mapping
MapVideos(v, userHistory, l) ==
    [i \in DOMAIN l |-> DiffVideo(v, userHistory, l[i])]

\* newHistoryMap / updatedHistoryMap / map: every video written in list order
RECURSIVE WriteAll(_, _)
WriteAll(obj, l) ==
    IF l = <<>> THEN obj
    ELSE WriteAll(Put(obj, Head(l).id, Head(l).numericViews), Tail(l))

\* browser: `if (isFirstTime) userHistory[video.id] = ...' runs inside the map,
\* so a later video of the same list is diffed against the object as written
RECURSIVE MapVideosBrowser(_, _, _)
MapVideosBrowser(isFirstTime, userHistory, l) ==
    IF l = <<>> THEN [videos |-> <<>>, userHistory |-> userHistory]
    ELSE LET d == DiffVideo("browser", userHistory, Head(l))
             uh == IF isFirstTime
                   THEN Put(userHistory, Head(l).id, Head(l).numericViews)
                   ELSE userHistory
             rest == MapVideosBrowser(isFirstTime, uh, Tail(l))
         IN  [videos |-> <<d>> \o rest.videos, userHistory |-> rest.userHistory]

\* the cached answer: one entry per key of userHistory, change 0
FallbackVideos(userHistory) ==
    LET ks == Keys(userHistory)
    IN  [i \in DOMAIN ks |->
            [id |-> ks[i], numericViews |-> userHistory[ks[i]],
             change |-> 0, changePercent |-> 0]]

VARIABLES
    variant,     \* which of the three programs runs
    watched,     \* watched_users.json: None (no file / no list) or the list
    history,     \* tiktok_view_history.json: handle -> (video id -> views)
    slots,       \* the /views requests in flight, each at its await
    cron,        \* the scheduled job: its position and its local variables
    last,        \* the last completed step: what it read, got and answered
    nOps,        \* operations started so far
    source,      \* the remote source of the harvest under way
    walk,        \* the harvest under way: the locals of fetchVideos...
    seen,        \* what the harvest has been observed to do (history variable)
    metric,      \* a view count on its way through parseViewCount, formatViewCount
    session      \* the shared browser: the globals and the calls that open it


tvars == <<variant, watched, history, slots, cron, last, nOps>>

wvars == <<source, walk, seen>>

vars == <<tvars, wvars, metric, session>>

Slots == 1 .. NumSlots

IdleSlot == [pc |-> "idle", user |-> <<>>, globalHistory |-> EmptyObj]
\* failed: the users whose turn in this run of the job brought an error or no
\* videos (history variable), recorded when tracking is set
IdleCron ==
    [pc |-> "idle", users |-> <<>>, globalHistory |-> EmptyObj, failed |-> {},
     tracking |-> FALSE]

\* the job at rest in a run that records the failed turns
TrackingCron == [IdleCron EXCEPT !.tracking = TRUE]

\* `last' describes the step that has just run, NoStep once Forget has cleared
\* it: every step starts from a cleared `last', so a step and its answer are
\* described in exactly one state.  before/after: the subject's map in
\* the object the step writes (the file for a /views handler, the job's
\* globalHistory for a scheduled job) before and after the step; prev: the
\* userHistory the step diffed against; fresh: prev is what the file held;
\* list: the watch list a DELETE found.
NoStep ==
    [kind |-> "init", user |-> <<>>, result |-> ScrapeError(None),
     prev |-> EmptyObj, before |-> EmptyObj, after |-> EmptyObj, fresh |-> TRUE,
     status |-> 0, isCached |-> FALSE, videos |-> <<>>, wrote |-> FALSE,
     list |-> None]

\* ------------------------------------------------------------------ watch list
\* an add that does not look for the handle in the list
AddToWatchedUsersAlways(w, username) ==
    Append(IF w = None THEN <<>> ELSE w, username)

\* addToWatchedUsers, and its inlined copy in the browser variant
AddToWatchedUsers(w, username) ==
    LET list == IF w = None THEN <<>> ELSE w
    IN  IF username \in SeqToSet(list) THEN w ELSE Append(list, username)

\* data.list.filter(u => u !== username)
Without(list, username) == SelectSeq(list, LAMBDA u : u # username)

\* ------------------------------------------------------------------ GET /views
\* What the handler does once performScrape has settled with result r, given
\* the globalHistory object gh it loaded before the await:
\*   status, isCached, videos: the response; save: whether saveJson runs;
\*   globalHistory: the object as the handler leaves it
ViewsAnswerTikwm(gh, target, r) ==
    LET userHistory == UserHistory(gh, target)
        isFirstTime == DOMAIN userHistory = {}
    IN  IF r.error # None
        THEN [status |-> IF r.error = "notfound" THEN 404 ELSE 500,
              isCached |-> FALSE, videos |-> <<>>, save |-> FALSE,
              globalHistory |-> gh]
        ELSE [status |-> 200, isCached |-> FALSE,
              videos |-> MapVideos("tikwm", userHistory, r.videos),
              save |-> isFirstTime,
              globalHistory |->
                  IF isFirstTime
                  THEN Put(gh, target, WriteAll(EmptyObj, r.videos))
                  ELSE gh]

ViewsAnswerCountik(gh, target, r) ==
    LET userHistory == UserHistory(gh, target)
    IN  IF r.error # None
        THEN IF DOMAIN userHistory # {}
             THEN [status |-> 200, isCached |-> TRUE,
                   videos |-> FallbackVideos(userHistory), save |-> FALSE,
                   globalHistory |-> gh]
             ELSE [status |-> 500, isCached |-> FALSE, videos |-> <<>>,
                   save |-> FALSE, globalHistory |-> gh]
        ELSE [status |-> 200, isCached |-> FALSE,
              videos |-> MapVideos("countik", userHistory, r.videos),
              save |-> TRUE,
              globalHistory |-> Put(gh, target, WriteAll(EmptyObj, r.videos))]

ViewsAnswerBrowser(gh, target, r) ==
    LET userHistory == UserHistory(gh, target)
        isFirstTime == DOMAIN userHistory = {}
        m == MapVideosBrowser(isFirstTime, userHistory, r.videos)
    IN  IF r.error # None
        THEN IF DOMAIN userHistory # {}
             THEN [status |-> 200, isCached |-> TRUE,
                   videos |-> FallbackVideos(userHistory), save |-> FALSE,
                   globalHistory |-> gh]
             ELSE [status |-> 500, isCached |-> FALSE, videos |-> <<>>,
                   save |-> FALSE, globalHistory |-> gh]
        ELSE [status |-> 200, isCached |-> FALSE, videos |-> m.videos,
              save |-> isFirstTime,
              globalHistory |->
                  IF isFirstTime THEN Put(gh, target, m.userHistory) ELSE gh]

ViewsAnswer(v, gh, target, r) ==
    CASE v = "tikwm" -> ViewsAnswerTikwm(gh, target, r)
      [] v = "countik" -> ViewsAnswerCountik(gh, target, r)
      [] v = "browser" -> ViewsAnswerBrowser(gh, target, r)

\* if (!user) return res.status(400)
ViewsNoUser ==
    /\ last = NoStep
    /\ nOps < MaxOps
    /\ nOps' = nOps + 1
    /\ last' = [NoStep EXCEPT !.kind = "nouser", !.status = 400]
    /\ UNCHANGED <<variant, watched, history, slots, cron, wvars, metric, session>>

\* the handler up to `await performScrape(targetUsername)'; requests in flight
\* differ only in what they hold, so a new one takes the lowest idle slot
ViewsBegin(s, raw) ==
    LET target == CleanUser(raw)
    IN  /\ last = NoStep
        /\ slots[s].pc = "idle"
        /\ \A t \in Slots : t < s => slots[t].pc # "idle"
        /\ nOps < MaxOps
        /\ nOps' = nOps + 1
        /\ watched' = AddToWatchedUsers(watched, target)
        /\ slots' = [slots EXCEPT ![s] =
                        [pc |-> "scrape", user |-> target,
                         globalHistory |-> history]]
        /\ UNCHANGED <<variant, history, cron, last, wvars, metric, session>>

\* the handler from the settled scrape to res.json
ViewsComplete(s, r) ==
    LET target == slots[s].user
        gh == slots[s].globalHistory
        a == ViewsAnswer(variant, gh, target, r)
        written == IF a.save THEN a.globalHistory ELSE history
    IN  /\ last = NoStep
        /\ slots[s].pc = "scrape"
        /\ history' = written
        /\ slots' = [slots EXCEPT ![s] = IdleSlot]
        /\ last' = [kind |-> "views", user |-> target, result |-> r,
                    prev |-> UserHistory(gh, target),
                    before |-> UserHistory(history, target),
                    after |-> UserHistory(written, target),
                    fresh |-> UserHistory(gh, target) = UserHistory(history, target),
                    status |-> a.status, isCached |-> a.isCached,
                    videos |-> a.videos, wrote |-> a.save, list |-> None]
        /\ UNCHANGED <<variant, watched, cron, nOps, wvars, metric, session>>

\* ------------------------------------------------------------------ DELETE /watched
\* tikwm, countik: 404 unless data.list is there; browser: always success
DeleteWatched(username) ==
    /\ last = NoStep
    /\ nOps < MaxOps
    /\ nOps' = nOps + 1
    /\ IF variant = "browser"
       THEN /\ watched' = Without(IF watched = None THEN <<>> ELSE watched, username)
            /\ last' = [NoStep EXCEPT !.kind = "delete", !.user = username, !.list = watched,
                                      !.status = 200]
       ELSE IF watched # None
       THEN /\ watched' = Without(watched, username)
            /\ last' = [NoStep EXCEPT !.kind = "delete", !.user = username, !.list = watched,
                                      !.status = 200]
       ELSE /\ watched' = watched
            /\ last' = [NoStep EXCEPT !.kind = "delete", !.user = username, !.list = watched,
                                      !.status = 404]
    /\ UNCHANGED <<variant, history, slots, cron, wvars, metric, session>>

\* ------------------------------------------------------------------ scheduled jobs
\* tikwm '0 7 * * *' and countik '0 */2 * * *' rebuild the subject's map from the
\* harvest (a baseline reset); browser '*/30 * * * *' merges the harvest into it.
CronKind(v) == IF v = "browser" THEN "refresh" ELSE "reset"

\* a reset that keeps the baseline of the items it already holds
CronApplyKeepsBaseline(v, gh, user, r) ==
    IF r.error # None \/ Len(r.videos) = 0 THEN gh
    ELSE LET old == UserHistory(gh, user)
             new == WriteAll(EmptyObj, r.videos)
         IN  Put(gh, user,
                 [id \in DOMAIN new |-> IF id \in DOMAIN old THEN old[id] ELSE new[id]])

\* one turn of the job's `for (const user of users)' on its globalHistory
CronApply(v, gh, user, r) ==
    IF v = "browser"
    THEN IF r.error # None THEN gh
         ELSE Put(gh, user, WriteAll(UserHistory(gh, user), r.videos))
    ELSE IF Len(r.videos) > 0
         THEN Put(gh, user, WriteAll(EmptyObj, r.videos))
         ELSE gh

\* the job up to its loop: both files are loaded once
CronStart ==
    /\ last = NoStep
    /\ cron.pc = "idle"
    /\ nOps < MaxOps
    /\ nOps' = nOps + 1
    /\ cron' = [pc |-> "run", users |-> IF watched = None THEN <<>> ELSE watched,
                globalHistory |-> history, failed |-> {},
                tracking |-> cron.tracking]
    /\ UNCHANGED <<variant, watched, history, slots, last, wvars, metric, session>>

\* one turn of the loop; the browser job saves inside the turn
CronUser(r) ==
    LET user == Head(cron.users)
        gh == CronApply(variant, cron.globalHistory, user, r)
        saves == variant = "browser" /\ r.error = None
    IN  /\ last = NoStep
        /\ cron.pc = "run"
        /\ cron.users # <<>>
        /\ cron' = [cron EXCEPT !.users = Tail(cron.users), !.globalHistory = gh,
                                !.failed =
                                    IF cron.tracking
                                       /\ (r.error # None \/ r.videos = <<>>)
                                    THEN @ \cup {user} ELSE @]
        /\ history' = IF saves THEN gh ELSE history
        /\ last' = [NoStep EXCEPT
                        !.kind = CronKind(variant), !.user = user, !.result = r,
                        !.prev = UserHistory(cron.globalHistory, user),
                        !.before = UserHistory(cron.globalHistory, user),
                        !.after = UserHistory(gh, user),
                        !.wrote = gh # cron.globalHistory \/ saves]
        /\ UNCHANGED <<variant, watched, slots, nOps, wvars, metric, session>>

\* after the loop: tikwm and countik save the whole object
CronEnd ==
    /\ last = NoStep
    /\ cron.pc = "run"
    /\ cron.users = <<>>
    /\ history' = IF variant = "browser" THEN history ELSE cron.globalHistory
    /\ cron' = [IdleCron EXCEPT !.tracking = cron.tracking]
    /\ last' = [NoStep EXCEPT !.kind = "cronEnd"]
    /\ UNCHANGED <<variant, watched, slots, nOps, wvars, metric, session>>

\* the step that ran has been observed
Forget ==
    /\ last # NoStep
    /\ last' = NoStep
    /\ UNCHANGED <<variant, watched, history, slots, cron, nOps, wvars, metric, session>>

\* ------------------------------------------------------------------ the source
Min(a, b) == IF a < b THEN a ELSE b

\* the ids a .. b in order
Range(a, b) == [i \in 1 .. (IF b >= a THEN b - a + 1 ELSE 0) |-> a + i - 1]

\* the first n elements
Take(l, n) == SubSeq(l, 1, Min(n, Len(l)))

\* the source holds the videos 1 .. held; cursor c stands before video c + 1
MaxHeld == TARGET_VIDEO_COUNT + 1

\* a page of k videos served at cursor c, with the cursor and flag that follow
Page(c, k, held) ==
    [kind |-> "page", videos |-> Range(c + 1, c + k), cursor |-> c + k,
     hasMore |-> c + k < held]

\* the k videos before cursor c served again: nothing new, the cursor does
\* not move and the source still says there is more
Repeat(c, k) ==
    [kind |-> "repeat", videos |-> Range(c - k + 1, c), cursor |-> c,
     hasMore |-> TRUE]

\* an answer with no videos that still says there is more
Empty(c) == [kind |-> "empty", videos |-> <<>>, cursor |-> c, hasMore |-> TRUE]

Fault(kind) == [kind |-> kind, videos |-> <<>>, cursor |-> 0, hasMore |-> FALSE]

\* what a page request at cursor c may bring back: a page of up to PAGE_COUNT
\* videos (the last page may be empty), the videos before c again, or
\* nothing with hasMore still set
PagesAt(c, held) ==
    {Page(c, k, held) : k \in (IF held > c THEN 1 ELSE 0) .. Min(PAGE_COUNT, held - c)}
    \cup (IF c > 0 THEN {Repeat(c, Min(PAGE_COUNT, c))} ELSE {})
    \cup {Empty(c)}

\* a page that serves all the source has left, up to the count asked for
IsFullPage(resp, c, held) ==
    resp.kind = "page" /\ Len(resp.videos) = Min(PAGE_COUNT, held - c)

\* ------------------------------------------------------------------ one harvest
\* uniqueVideos: the first occurrence of every id, in order
RECURSIVE Dedup(_)
Dedup(l) ==
    IF l = <<>> THEN <<>>
    ELSE LET front == Dedup(SubSeq(l, 1, Len(l) - 1))
             x == l[Len(l)]
         IN  IF x \in SeqToSet(front) THEN front ELSE Append(front, x)

\* the largest number of page requests a capped loop of the program makes:
\* the first batch and maxLoops turns of the countik loop
RequestCap == maxLoops + 1

NoWalk ==
    [pc |-> "idle", allVideos |-> <<>>, cursor |-> 0, hasMore |-> TRUE,
     loops |-> 0, forceHeadful |-> FALSE, consecutiveNoLoad |-> 0,
     outerVideos |-> <<>>, error |-> None, videos |-> <<>>]

NewWalk(v) == [NoWalk EXCEPT !.pc = IF v = "countik" THEN "open" ELSE "loop"]

\* stall: the latest iterations in a row that brought no new video, counted
\* up to StallLimit + 1;
\* escalations: switches from headless to headful; log: the classification and
\* the mode of the page requests up to the first payload; honest: every answer so far was
\* a page; full: every page so far was a full page; stop: "cap" or "stall"
\* once the loop has ended on its iteration cap or its stall limit, "notfound"
\* once the source has answered with a code other than 0, "timeout" once the
\* wait for the CAPTCHA has timed out;
\* counting: only the page requests are recorded, in requests, counted up to
\* RequestCap + 1, and the waits for the CAPTCHA, in waits, counted up to 2
NothingSeen ==
    [stall |-> 0, escalations |-> 0, log |-> <<>>, honest |-> TRUE,
     full |-> TRUE, requests |-> 0, waits |-> 0, stop |-> None,
     counting |-> FALSE]

\* a run that only counts the page requests
OnlyCounting == [NothingSeen EXCEPT !.counting = TRUE]

\* the history variable of a counting run after one more page request
Counted == [seen EXCEPT !.requests = Min(@ + 1, RequestCap + 1)]

\* n: the videos in the answer; got: the videos held once it was handled;
\* the log ends with the first answer classified "ok"
Logged(cls, mode, n, got) ==
    IF Len(seen.log) < MaxLog
       /\ (seen.log = <<>> \/ seen.log[Len(seen.log)].cls # "ok")
    THEN Append(seen.log, [cls |-> cls, mode |-> mode, n |-> n, got |-> got])
    ELSE seen.log

Mode(w) == IF w.forceHeadful THEN "escalated" ELSE "stealth"

\* the Challenge Classifier's name for an answer: tikwm takes an HTML answer
\* (code -999) for the block page, browser takes a body without the payload
\* for a CAPTCHA
Classify(resp) ==
    CASE resp.kind \in {"page", "repeat", "empty"} -> "ok"
      [] resp.kind \in {"block", "nodata"} -> "challenge"
      [] resp.kind = "badcode" -> "notfound"
      [] OTHER -> "network"

\* the history variable after a page request answered by resp left the
\* harvest as w
Observe(resp, w) ==
    IF seen.counting THEN Counted
    ELSE
    [seen EXCEPT
        !.stall = IF resp.kind \in {"page", "repeat", "empty"}
                  THEN IF SeqToSet(resp.videos) \subseteq SeqToSet(walk.allVideos)
                       THEN Min(@ + 1, StallLimit + 1) ELSE 0
                  ELSE @,
        !.log = Logged(Classify(resp), Mode(walk), Len(resp.videos),
                       Len(w.allVideos)),
        !.honest = @ /\ resp.kind = "page",
        !.full = @ /\ IsFullPage(resp, walk.cursor, source.held)]

\* --- tikwm: fetchVideosFromTikWM, from `let allVideos = []' on
TikwmResponses(c, held) ==
    PagesAt(c, held) \cup {Fault("null"), Fault("block"), Fault("badcode")}

TikwmLoopCond(w) ==
    Len(w.allVideos) < TARGET_VIDEO_COUNT /\ w.hasMore /\ w.loops < MAX_LOOPS

\* one turn of the while loop, the page request answered by resp
TikwmStep(w, resp) ==
    LET n == w.loops + 1
        w1 == [w EXCEPT !.loops = n]
    IN  CASE resp.kind = "null" -> [w1 EXCEPT !.pc = "after"]
          [] resp.kind = "block" -> [w1 EXCEPT !.pc = "done", !.error = "failed"]
          [] resp.kind = "badcode" ->
                IF n = 1 THEN [w1 EXCEPT !.pc = "done", !.error = "notfound"]
                ELSE [w1 EXCEPT !.pc = "after"]
          [] OTHER ->
                IF Len(resp.videos) = 0
                THEN [w1 EXCEPT !.hasMore = FALSE, !.pc = "after"]
                ELSE IF resp.hasMore /\ resp.cursor # 0
                THEN [w1 EXCEPT !.allVideos = @ \o resp.videos,
                                !.cursor = resp.cursor]
                ELSE [w1 EXCEPT !.allVideos = @ \o resp.videos,
                                !.hasMore = FALSE]

\* a result that drops what was collected when the loop ran to its cap
TikwmResultDropsOnCap(w) ==
    IF w.loops >= MAX_LOOPS THEN <<>>
    ELSE Take(Dedup(w.allVideos), TARGET_VIDEO_COUNT)

\* normalize, de-duplicate, slice
TikwmResult(w) == Take(Dedup(w.allVideos), TARGET_VIDEO_COUNT)

\* the while condition failed on `loops < MAX_LOOPS' alone
TikwmCapped(w) ==
    /\ w.pc = "loop"
    /\ Len(w.allVideos) < TARGET_VIDEO_COUNT
    /\ w.hasMore
    /\ w.loops >= MAX_LOOPS

TikwmPage(resp) ==
    /\ variant = "tikwm"
    /\ walk.pc = "loop"
    /\ TikwmLoopCond(walk)
    /\ walk' = TikwmStep(walk, resp)
    /\ seen' = [Observe(resp, TikwmStep(walk, resp)) EXCEPT
                   !.stop = IF resp.kind = "badcode" /\ ~seen.counting
                            THEN "notfound" ELSE @]
    /\ UNCHANGED <<tvars, metric, session, source>>

TikwmReturn ==
    /\ variant = "tikwm"
    /\ walk.pc = "after" \/ (walk.pc = "loop" /\ ~TikwmLoopCond(walk))
    /\ walk' = [walk EXCEPT !.pc = "done", !.videos = TikwmResult(walk)]
    /\ seen' = [seen EXCEPT !.stop = IF TikwmCapped(walk) /\ ~seen.counting
                                     THEN "cap" ELSE @]
    /\ UNCHANGED <<tvars, metric, session, source>>

\* --- browser: fetchVideosViaBrowser
BrowserResponses(c, held) ==
    PagesAt(c, held) \cup {Fault("nodata"), Fault("throw")}

BrowserLoopCond(w) == w.hasMore /\ Len(w.allVideos) < TARGET_VIDEO_COUNT

\* a loop that takes the payload and forgets to move the cursor
BrowserTakeKeepsCursor(w, resp) ==
    LET all == w.allVideos \o resp.videos
    IN  [w EXCEPT !.allVideos = all,
                  !.pc = IF Len(all) >= TARGET_VIDEO_COUNT THEN "after" ELSE "loop"]

\* `if (data && data.code === 0) { ... }' on a payload
BrowserTake(w, resp) ==
    LET all == w.allVideos \o resp.videos
    IN  [w EXCEPT !.allVideos = all, !.cursor = resp.cursor,
                  !.hasMore = resp.hasMore,
                  !.pc = IF ~resp.hasMore \/ Len(all) >= TARGET_VIDEO_COUNT
                         THEN "after" ELSE "loop"]

\* a retry that starts over in the headless mode again
BrowserEscalateHeadless(w) ==
    [NewWalk("browser") EXCEPT !.outerVideos = w.allVideos]

\* `return await fetchVideosViaBrowser(inputUsername, true)': the call starts
\* over in the headful mode and its result is the result of the harvest;
\* outerVideos keeps the allVideos of the call that is waiting for it
BrowserEscalate(w) ==
    [NewWalk("browser") EXCEPT !.forceHeadful = TRUE,
                               !.outerVideos = w.allVideos]

\* one turn of the while loop up to the payload or the wait for the CAPTCHA
BrowserStep(w, resp) ==
    CASE resp.kind = "throw" -> [w EXCEPT !.pc = "after"]
      [] resp.kind = "nodata" ->
            IF ~w.forceHeadful THEN BrowserEscalate(w)
            ELSE [w EXCEPT !.pc = "wait"]
      [] OTHER -> BrowserTake(w, resp)

BrowserPage(resp) ==
    /\ variant = "browser"
    /\ walk.pc = "loop"
    /\ BrowserLoopCond(walk)
    /\ walk' = BrowserStep(walk, resp)
    /\ seen' = [Observe(resp, BrowserStep(walk, resp)) EXCEPT
                   !.escalations =
                       IF resp.kind = "nodata" /\ ~walk.forceHeadful
                          /\ ~seen.counting
                       THEN @ + 1 ELSE @,
                   !.waits =
                       IF resp.kind = "nodata" /\ walk.forceHeadful
                          /\ seen.counting
                       THEN Min(@ + 1, 2) ELSE @]
    /\ UNCHANGED <<tvars, metric, session, source>>

\* page.waitForFunction(..., { timeout: 120000 }) and the second
\* getJsonFromPage: the payload appears, or the wait times out (throws), or the
\* body still does not parse (data stays null: `break')
BrowserWaited(w, resp) ==
    IF resp.kind \in {"throw", "nodata"} THEN [w EXCEPT !.pc = "after"]
    ELSE BrowserTake(w, resp)

BrowserWait(resp) ==
    /\ variant = "browser"
    /\ walk.pc = "wait"
    /\ walk' = BrowserWaited(walk, resp)
    /\ seen' = [Observe(resp, BrowserWaited(walk, resp)) EXCEPT
                   !.stop = IF resp.kind = "throw" /\ ~seen.counting
                            THEN "timeout" ELSE @]
    /\ UNCHANGED <<tvars, metric, session, source>>

\* after the loop: throw on an empty list, else map and slice (no dedup).
\* The throw of the headful call lands in the `catch (e)' of the call that
\* made it, which goes on to this same test with its own allVideos.
BrowserResult(w) ==
    IF w.allVideos # <<>>
    THEN [w EXCEPT !.pc = "done", !.videos = Take(w.allVideos, TARGET_VIDEO_COUNT)]
    ELSE IF w.outerVideos # <<>>
    THEN [w EXCEPT !.pc = "done", !.videos = Take(w.outerVideos, TARGET_VIDEO_COUNT)]
    ELSE [w EXCEPT !.pc = "done", !.error = "failed"]

BrowserReturn ==
    /\ variant = "browser"
    /\ walk.pc = "after" \/ (walk.pc = "loop" /\ ~BrowserLoopCond(walk))
    /\ walk' = BrowserResult(walk)
    /\ UNCHANGED <<tvars, metric, session, source, seen>>

\* --- countik: fetchVideosFromCountik; allVideos stands for collectedVideos
\* (a Map: ids in insertion order), loops for the loop index i
\* what the response listener may have received during one wait: nothing, a
\* list of new videos, or a list of videos it already holds
CountikArrivals(w, held) ==
    LET c == Len(w.allVideos)
    IN  {Fault("none"), Fault("throw")} \cup PagesAt(c, held)

\* collectedVideos after the listener ran on the list
CountikCollect(w, resp) ==
    [w EXCEPT !.allVideos = Dedup(@ \o resp.videos)]

\* page.goto, the search, the wait for the first batch, the reload
CountikOpen(resp) ==
    /\ variant = "countik"
    /\ walk.pc = "open"
    /\ walk' = IF resp.kind = "throw" THEN [walk EXCEPT !.pc = "after"]
               ELSE [CountikCollect(walk, resp) EXCEPT !.pc = "loop"]
    /\ seen' = IF seen.counting THEN Counted
               ELSE [seen EXCEPT !.honest = @ /\ resp.kind = "page"]
    /\ UNCHANGED <<tvars, metric, session, source>>

\* `if (consecutiveNoLoad >= 6) break' is taken in this turn
CountikStalled(w, resp) ==
    /\ resp.kind # "throw"
    /\ Len(CountikCollect(w, resp).allVideos) = Len(w.allVideos)
    /\ w.consecutiveNoLoad + 1 >= StallLimit

\* one turn of `for (let i = 0; i < maxLoops; i++)'
CountikStep(w, resp) ==
    IF Len(w.allVideos) >= MAX_VIDEOS_TO_SCRAPE THEN [w EXCEPT !.pc = "after"]
    ELSE IF resp.kind = "throw" THEN [w EXCEPT !.pc = "after"]
    ELSE LET w1 == CountikCollect(w, resp)
             n == IF Len(w1.allVideos) = Len(w.allVideos)
                  THEN w.consecutiveNoLoad + 1 ELSE 0
         IN  IF n >= StallLimit
             THEN [w1 EXCEPT !.consecutiveNoLoad = n, !.pc = "after"]
             ELSE [w1 EXCEPT !.consecutiveNoLoad = n, !.loops = @ + 1]

CountikScroll(resp) ==
    /\ variant = "countik"
    /\ walk.pc = "loop"
    /\ walk.loops < maxLoops
    /\ walk' = CountikStep(walk, resp)
    /\ seen' = IF Len(walk.allVideos) >= MAX_VIDEOS_TO_SCRAPE THEN seen
               ELSE IF seen.counting THEN Counted
               ELSE [seen EXCEPT
                        !.stall = IF SeqToSet(resp.videos) \subseteq
                                        SeqToSet(walk.allVideos)
                                  THEN Min(@ + 1, StallLimit + 1) ELSE 0,
                        !.honest = @ /\ resp.kind = "page",
                        !.stop = IF CountikStalled(walk, resp)
                                 THEN "stall" ELSE @]
    /\ UNCHANGED <<tvars, metric, session, source>>

\* after the loop: throw on an empty Map, else sort by createTime and slice
CountikReturn ==
    /\ variant = "countik"
    /\ walk.pc = "after" \/ (walk.pc = "loop" /\ walk.loops >= maxLoops)
    /\ walk' = IF walk.allVideos = <<>>
               THEN [walk EXCEPT !.pc = "done", !.error = "failed"]
               ELSE [walk EXCEPT !.pc = "done",
                                 !.videos = Take(walk.allVideos, MAX_VIDEOS_TO_SCRAPE)]
    /\ seen' = [seen EXCEPT !.stop = IF walk.pc = "loop" /\ ~seen.counting
                                        /\ Len(walk.allVideos) < MAX_VIDEOS_TO_SCRAPE
                                     THEN "cap" ELSE @]
    /\ UNCHANGED <<tvars, metric, session, source>>

\* ------------------------------------------------------------------ view counts
\* A string is a sequence of characters.  A number is kept in tenths where
\* the source computes in floating point; on the strings drawn here the
\* doubles differ from the exact values by less than what toFixed(1) keeps.
Thousand == 1000
Million == 1000000

DigitChars == <<"0", "1", "2", "3", "4", "5", "6", "7", "8", "9">>

IsDigit(c) == \E i \in DOMAIN DigitChars : DigitChars[i] = c

DigitValue(c) == (CHOOSE i \in DOMAIN DigitChars : DigitChars[i] = c) - 1

\* Number.prototype.toString of a non-negative integer
RECURSIVE NumToString(_)
NumToString(n) ==
    IF n < 10 THEN <<DigitChars[n + 1]>>
    ELSE Append(NumToString(n \div 10), DigitChars[(n % 10) + 1])

\* the value of the longest prefix of digits (parseInt / the whole part of
\* parseFloat), and what follows that prefix
RECURSIVE DigitPrefix(_, _)
DigitPrefix(s, acc) ==
    IF s # <<>> /\ IsDigit(Head(s))
    THEN DigitPrefix(Tail(s), acc * 10 + DigitValue(Head(s)))
    ELSE [value |-> acc, rest |-> s]

\* s.replace('M', '') / s.replace('K', ''): the first occurrence goes
RECURSIVE ReplaceFirst(_, _)
ReplaceFirst(s, c) ==
    IF s = <<>> THEN <<>>
    ELSE IF Head(s) = c THEN Tail(s)
    ELSE <<Head(s)>> \o ReplaceFirst(Tail(s), c)

\* toUpperCase on the letters that matter
ToUpperCase(s) ==
    [i \in DOMAIN s |-> IF s[i] = "k" THEN "K" ELSE IF s[i] = "m" THEN "M" ELSE s[i]]

Includes(s, c) == \E i \in DOMAIN s : s[i] = c

\* parseFloat in tenths: digits, then at most `.' and one digit that counts
\* (NaN, which no string drawn here yields, is left as 0)
ParseFloatTenths(s) ==
    LET w == DigitPrefix(s, 0)
    IN  IF Len(w.rest) >= 2 /\ w.rest[1] = "." /\ IsDigit(w.rest[2])
        THEN w.value * 10 + DigitValue(w.rest[2])
        ELSE w.value * 10

\* parseInt(s.replace(/,/g, ''), 10) || 0
ParseIntOrZero(s) == DigitPrefix(SelectSeq(s, LAMBDA c : c # ","), 0).value

parseViewCount(str) ==
    IF str = <<>> THEN 0
    ELSE LET s == Trim(ToUpperCase(str))
         IN  IF Includes(s, "M")
             THEN ParseFloatTenths(ReplaceFirst(s, "M")) * (Million \div 10)
             ELSE IF Includes(s, "K")
             THEN ParseFloatTenths(ReplaceFirst(s, "K")) * (Thousand \div 10)
             ELSE ParseIntOrZero(s)

\* (num / den).toFixed(1) for den 1000 or 1000000: the nearest tenth, the
\* larger one on a tie, written whole `.' tenth
ToFixed1(num, den) ==
    LET tenths == (num + den \div 20) \div (den \div 10)
    IN  NumToString(tenths \div 10) \o <<".">> \o NumToString(tenths % 10)

\* a format whose million test is `>' instead of `>='
formatViewCountStrict(num) ==
    IF num > Million THEN ToFixed1(num, Million) \o <<"M">>
    ELSE IF num >= Thousand THEN ToFixed1(num, Thousand) \o <<"K">>
    ELSE NumToString(num)

formatViewCount(num) ==
    IF num >= Million THEN ToFixed1(num, Million) \o <<"M">>
    ELSE IF num >= Thousand THEN ToFixed1(num, Thousand) \o <<"K">>
    ELSE NumToString(num)

\* the string written whole `.' tenth suffix
OneDecimal(whole, tenth, suffix) ==
    NumToString(whole) \o <<".">> \o NumToString(tenth) \o suffix

Suffixes == {<<>>, <<"K">>, <<"M">>}

NoMetric ==
    [pc |-> "idle", whole |-> 0, tenth |-> 0, suffix |-> <<>>, str |-> <<>>,
     num |-> 0, out |-> <<>>]

MetricParse ==
    /\ metric.pc = "parse"
    /\ metric' = [metric EXCEPT !.num = parseViewCount(metric.str),
                                !.pc = "format"]
    /\ UNCHANGED <<tvars, wvars, session>>

MetricFormat ==
    /\ metric.pc = "format"
    /\ metric' = [metric EXCEPT !.out = formatViewCount(metric.num),
                                !.pc = "done"]
    /\ UNCHANGED <<tvars, wvars, session>>

\* ------------------------------------------------------------------ the browser session
\* tikwm keeps one persistent context for the whole process (browserContext,
\* mainPage, isBrowserReady); countik keeps one browser (browser).  A call of
\* initBrowser or getBrowser runs up to its first await in the step that makes
\* it, and each await it resumes from is a step of its own.
\* `while (attempts < 3)' of initBrowser
InitAttempts == 3

\* harvests made one after the other by the /views handler
MaxHarvests == 2

\* who calls initBrowser (tikwm): app.listen, fetchVideosFromTikWM on behalf of
\* a /views request, the setTimeout of a failed harvest; who calls getBrowser
\* (countik): the harvests of a /views request and of the scheduled job
Callers == {"startup", "views", "timer", "cron"}
TikwmCallers == {"startup", "views", "timer"}
CountikCallers == {"views", "cron"}

\* what mainPage.title() may give: the two challenge pages initBrowser looks
\* for ("Just a moment", and "Security" or "Cloudflare"), or the home page
Titles == {"Just a moment", "Security", "TikWM"}

\* title.includes("Just a moment") || includes("Security") || includes("Cloudflare")
IsChallengeTitle(title) == title \in {"Just a moment", "Security"}

IdleCall == [pc |-> "idle", attempts |-> 0]

\* blocks: the block pages this harvest has been answered with (history variable)
IdleFetch == [pc |-> "idle", loops |-> 0, error |-> None, blocks |-> 0, n |-> 0]

NoSession ==
    [browserContext |-> None, mainPage |-> None, isBrowserReady |-> FALSE,
     browser |-> None, init |-> [c \in Callers |-> IdleCall],
     fetch |-> IdleFetch, timer |-> FALSE]

\* initBrowser from its call to `await chromium.launchPersistentContext(...)'
InitBrowserCall(sess, c) ==
    IF sess.browserContext # None
    THEN [sess EXCEPT !.init[c] = [pc |-> "done", attempts |-> 0]]
    ELSE [sess EXCEPT !.isBrowserReady = FALSE,
                      !.init[c] = [pc |-> "launch", attempts |-> 0]]

\* `catch (e) { browserContext = null; }' of initBrowser
InitBrowserCatch(sess, c) ==
    [sess EXCEPT !.browserContext = None, !.init[c].pc = "done"]

\* app.listen(PORT, async () => { await initBrowser(); })
Listen ==
    /\ variant = "tikwm"
    /\ session.init["startup"].pc = "idle"
    /\ session' = InitBrowserCall(session, "startup")
    /\ UNCHANGED <<tvars, wvars, metric>>

\* the launch settles: the context and its first page are kept, then the
\* cookies are added and the home page is opened
InitBrowserLaunched(c, ok) ==
    /\ variant = "tikwm"
    /\ session.init[c].pc = "launch"
    /\ session' = IF ok
                  THEN [session EXCEPT !.browserContext = "context",
                                       !.mainPage = "page",
                                       !.init[c].pc = "goto"]
                  ELSE InitBrowserCatch(session, c)
    /\ UNCHANGED <<tvars, wvars, metric>>

\* addCookies and mainPage.goto settle
InitBrowserGoto(c, ok) ==
    /\ variant = "tikwm"
    /\ session.init[c].pc = "goto"
    /\ session' = IF ok THEN [session EXCEPT !.init[c].pc = "check"]
                  ELSE InitBrowserCatch(session, c)
    /\ UNCHANGED <<tvars, wvars, metric>>

\* one turn of `while (attempts < 3)': title is what mainPage.title() gave,
\* "throw" when the title or the reload threw
InitBrowserAttempt(c, title) ==
    LET n == session.init[c].attempts + 1
    IN  /\ variant = "tikwm"
        /\ session.init[c].pc = "check"
        /\ session.init[c].attempts < InitAttempts
        /\ session' =
              IF title = "throw" THEN InitBrowserCatch(session, c)
              ELSE IF ~IsChallengeTitle(title)
              THEN [session EXCEPT !.isBrowserReady = TRUE, !.init[c].pc = "done"]
              ELSE IF n < InitAttempts
              THEN [session EXCEPT !.init[c].attempts = n]
              ELSE [session EXCEPT !.isBrowserReady = FALSE,
                                   !.init[c] = [pc |-> "done", attempts |-> n]]
        /\ UNCHANGED <<tvars, wvars, metric>>

\* `setTimeout(() => initBrowser(), 1000)' runs
TimerFire ==
    /\ variant = "tikwm"
    /\ session.timer
    /\ session.init["timer"].pc \in {"idle", "done"}
    /\ session' = InitBrowserCall([session EXCEPT !.timer = FALSE], "timer")
    /\ UNCHANGED <<tvars, wvars, metric>>

\* fetchVideosFromTikWM from its call to its first await
FetchBegin ==
    /\ variant = "tikwm"
    /\ session.init["startup"].pc # "idle"
    /\ session.fetch.pc = "idle"
    /\ session.fetch.n < MaxHarvests
    /\ session' =
          IF session.isBrowserReady
          THEN [session EXCEPT !.fetch.pc = "loop"]
          ELSE IF session.browserContext = None
          THEN [InitBrowserCall(session, "views") EXCEPT !.fetch.pc = "init"]
          ELSE [session EXCEPT !.fetch.pc = "title"]
    /\ UNCHANGED <<tvars, wvars, metric>>

\* `await initBrowser()' of the readiness check resumes
FetchInitDone ==
    /\ variant = "tikwm"
    /\ session.fetch.pc = "init"
    /\ session.init["views"].pc = "done"
    /\ session' = [session EXCEPT
                      !.init["views"] = IdleCall,
                      !.fetch.pc = IF session.isBrowserReady THEN "loop" ELSE "title"]
    /\ UNCHANGED <<tvars, wvars, metric>>

\* `const title = await mainPage?.title() || ""' and the test on it
FetchTitle(title) ==
    LET t == IF session.mainPage = None THEN "" ELSE title
    IN  /\ variant = "tikwm"
        /\ session.fetch.pc = "title"
        /\ session' =
              IF t = "throw"
              THEN [session EXCEPT !.fetch.pc = "done", !.fetch.error = "failed"]
              ELSE IF t # "Just a moment"
              THEN [session EXCEPT !.isBrowserReady = TRUE, !.fetch.pc = "loop"]
              ELSE [session EXCEPT !.fetch.pc = "done", !.fetch.error = "busy"]
        /\ UNCHANGED <<tvars, wvars, metric>>

\* the answers to one page request as the session sees them: a page with more
\* to come, a last page, null, the block page, a code other than 0, a throw
FetchAnswers == {"more", "last", "null", "block", "badcode", "throw"}

\* one turn of the while loop of fetchVideosFromTikWM with its catch
FetchStep(sess, resp) ==
    LET n == sess.fetch.loops + 1
        s1 == [sess EXCEPT !.fetch.loops = n]
    IN  IF sess.mainPage = None \/ resp = "throw"
        THEN [s1 EXCEPT !.fetch.pc = "done", !.fetch.error = "failed"]
        ELSE CASE resp = "block" ->
                    [s1 EXCEPT !.isBrowserReady = FALSE, !.timer = TRUE,
                               !.fetch.pc = "done", !.fetch.error = "expired",
                               !.fetch.blocks = @ + 1]
               [] resp = "badcode" /\ n = 1 ->
                    [s1 EXCEPT !.fetch.pc = "done", !.fetch.error = "notfound"]
               [] resp = "more" -> s1
               [] OTHER -> [s1 EXCEPT !.fetch.pc = "done"]

FetchRequest(resp) ==
    /\ variant = "tikwm"
    /\ session.fetch.pc = "loop"
    /\ session.fetch.loops < MAX_LOOPS
    /\ session' = FetchStep(session, resp)
    /\ UNCHANGED <<tvars, wvars, metric>>

\* the loop ends on `loops < MAX_LOOPS'
FetchReturn ==
    /\ variant = "tikwm"
    /\ session.fetch.pc = "loop"
    /\ session.fetch.loops >= MAX_LOOPS
    /\ session' = [session EXCEPT !.fetch.pc = "done"]
    /\ UNCHANGED <<tvars, wvars, metric>>

\* performScrape has returned and the handler has answered
FetchEnd ==
    /\ variant = "tikwm"
    /\ session.fetch.pc = "done"
    /\ session' = [session EXCEPT
                      !.fetch = [IdleFetch EXCEPT !.n = session.fetch.n + 1]]
    /\ UNCHANGED <<tvars, wvars, metric>>

\* getBrowser from its call to `await chromium.launch(...)'
GetBrowserCall(c) ==
    /\ variant = "countik"
    /\ c \in CountikCallers
    /\ session.init[c].pc = "idle"
    /\ session' = [session EXCEPT
                      !.init[c].pc = IF session.browser # None THEN "have"
                                     ELSE "launch"]
    /\ UNCHANGED <<tvars, wvars, metric>>

\* the launch settles: `browser = await ...', or the call throws
GetBrowserLaunched(c, ok) ==
    /\ variant = "countik"
    /\ session.init[c].pc = "launch"
    /\ session' = IF ok
                  THEN [session EXCEPT !.browser = "browser", !.init[c].pc = "have"]
                  ELSE [session EXCEPT !.init[c].pc = "done"]
    /\ UNCHANGED <<tvars, wvars, metric>>

\* the harvest that asked for the browser is over (its context is closed, the
\* browser stays)
GetBrowserUsed(c) ==
    /\ variant = "countik"
    /\ session.init[c].pc \in {"have", "done"}
    /\ session' = [session EXCEPT !.init[c] = IdleCall]
    /\ UNCHANGED <<tvars, wvars, metric>>

\* ------------------------------------------------------------------ specification
\* watched_users.json is absent, or left with an empty list by an earlier run
Init ==
    /\ variant \in Variants
    /\ watched \in {None, <<>>}
    /\ history = EmptyObj
    /\ slots = [s \in Slots |-> IdleSlot]
    /\ cron = IdleCron
    /\ last = NoStep
    /\ nOps = 0
    /\ source = [held |-> 0]
    /\ walk = NoWalk
    /\ seen = NothingSeen
    /\ metric = NoMetric
    /\ session = NoSession

Next ==
    \/ ViewsNoUser
    \/ \E s \in Slots, raw \in RawUsers : ViewsBegin(s, raw)
    \/ \E s \in Slots, r \in ScrapeResults(variant) : ViewsComplete(s, r)
    \/ \E u \in RawUsers : DeleteWatched(u)
    \/ CronStart
    \/ \E r \in ScrapeResults(variant) : CronUser(r)
    \/ CronEnd
    \/ Forget

Spec == Init /\ [][Next]_vars

\* the same program with the failed turns of the scheduled job recorded
InitJob ==
    /\ variant \in Variants
    /\ watched \in {None, <<>>}
    /\ history = EmptyObj
    /\ slots = [s \in Slots |-> IdleSlot]
    /\ cron = TrackingCron
    /\ last = NoStep
    /\ nOps = 0
    /\ source = [held |-> 0]
    /\ walk = NoWalk
    /\ seen = NothingSeen
    /\ metric = NoMetric
    /\ session = NoSession

SpecJob == InitJob /\ [][Next]_vars

\* one harvest against a source holding 0 .. MaxHeld videos
InitWalk ==
    /\ variant \in Variants
    /\ watched = None
    /\ history = EmptyObj
    /\ slots = [s \in Slots |-> IdleSlot]
    /\ cron = IdleCron
    /\ last = NoStep
    /\ nOps = 0
    /\ source \in [held : 0 .. MaxHeld]
    /\ walk = NewWalk(variant)
    /\ seen = NothingSeen
    /\ metric = NoMetric
    /\ session = NoSession

NextWalk ==
    \/ \E resp \in TikwmResponses(walk.cursor, source.held) : TikwmPage(resp)
    \/ TikwmReturn
    \/ \E resp \in BrowserResponses(walk.cursor, source.held) : BrowserPage(resp)
    \/ \E resp \in BrowserResponses(walk.cursor, source.held) : BrowserWait(resp)
    \/ BrowserReturn
    \/ \E resp \in CountikArrivals(walk, source.held) : CountikOpen(resp)
    \/ \E resp \in CountikArrivals(walk, source.held) : CountikScroll(resp)
    \/ CountikReturn

SpecWalk == InitWalk /\ [][NextWalk]_vars

\* one harvest whose page requests are counted
InitCount ==
    /\ variant \in Variants
    /\ watched = None
    /\ history = EmptyObj
    /\ slots = [s \in Slots |-> IdleSlot]
    /\ cron = IdleCron
    /\ last = NoStep
    /\ nOps = 0
    /\ source \in [held : 0 .. MaxHeld]
    /\ walk = NewWalk(variant)
    /\ seen = OnlyCounting
    /\ metric = NoMetric
    /\ session = NoSession

SpecCount == InitCount /\ [][NextWalk]_vars

\* one string through parseViewCount, then formatViewCount
InitMetric ==
    /\ variant = "tikwm"
    /\ watched = None
    /\ history = EmptyObj
    /\ slots = [s \in Slots |-> IdleSlot]
    /\ cron = IdleCron
    /\ last = NoStep
    /\ nOps = 0
    /\ source = [held |-> 0]
    /\ walk = NoWalk
    /\ seen = NothingSeen
    /\ session = NoSession
    /\ \E whole \in 0 .. MaxWhole, tenth \in 0 .. 9, suffix \in Suffixes :
          metric = [NoMetric EXCEPT !.pc = "parse", !.whole = whole,
                                    !.tenth = tenth, !.suffix = suffix,
                                    !.str = OneDecimal(whole, tenth, suffix)]

NextMetric ==
    \/ MetricParse
    \/ MetricFormat

SpecMetric == InitMetric /\ [][NextMetric]_vars

\* the shared browser of a fresh process, under startup, /views harvests one
\* after the other and the timers they leave (tikwm), or under two harvests
\* at once (countik)
InitSession ==
    /\ variant \in {"tikwm", "countik"}
    /\ watched = None
    /\ history = EmptyObj
    /\ slots = [s \in Slots |-> IdleSlot]
    /\ cron = IdleCron
    /\ last = NoStep
    /\ nOps = 0
    /\ source = [held |-> 0]
    /\ walk = NoWalk
    /\ seen = NothingSeen
    /\ metric = NoMetric
    /\ session = NoSession

NextSession ==
    \/ Listen
    \/ \E c \in TikwmCallers, ok \in BOOLEAN : InitBrowserLaunched(c, ok)
    \/ \E c \in TikwmCallers, ok \in BOOLEAN : InitBrowserGoto(c, ok)
    \/ \E c \in TikwmCallers, title \in Titles \cup {"throw"} :
          InitBrowserAttempt(c, title)
    \/ TimerFire
    \/ FetchBegin
    \/ FetchInitDone
    \/ \E title \in Titles \cup {"throw"} : FetchTitle(title)
    \/ \E resp \in FetchAnswers : FetchRequest(resp)
    \/ FetchReturn
    \/ FetchEnd
    \/ \E c \in CountikCallers : GetBrowserCall(c)
    \/ \E c \in CountikCallers, ok \in BOOLEAN : GetBrowserLaunched(c, ok)
    \/ \E c \in CountikCallers : GetBrowserUsed(c)

SpecSession == InitSession /\ [][NextSession]_vars

\* ------------------------------------------------------------------ claims on SpecMetric
\* "x.yK" with value in [1000, 1000000), "x.yM" with value >= 1000000
IsCanonical ==
    \/ metric.suffix = <<"K">> /\ metric.whole >= 1 /\ metric.whole < Thousand
    \/ metric.suffix = <<"M">> /\ metric.whole >= 1

\* C17: for every canonical one-decimal suffixed string s,
\* formatViewCount(parseViewCount(s)) = s; parseViewCount("12.3K") = 12300 and
\* parseViewCount("1.0M") = 1000000.
C17_ParseFormatRoundTrip ==
    /\ (metric.pc = "done" /\ IsCanonical) => metric.out = metric.str
    /\ (metric.pc \in {"format", "done"}
          /\ metric.str = <<"1", "2", ".", "3", "K">>) => metric.num = 12300
    /\ (metric.pc \in {"format", "done"}
          /\ metric.str = <<"1", ".", "0", "M">>) => metric.num = 1000000

\* "12.3K" went through both functions and came back
C17_Witness ==
    /\ metric.pc = "done"
    /\ metric.str = <<"1", "2", ".", "3", "K">>
    /\ metric.num = 12300
    /\ metric.out = <<"1", "2", ".", "3", "K">>

\* ------------------------------------------------------------------ claims on SpecWalk
NoRepeats(l) == \A i, j \in DOMAIN l : l[i] = l[j] => i = j

Returned == walk.pc = "done" /\ walk.error = None

\* what each variant can hand to its caller (cf. ScrapeResults)
WalkResultShape ==
    walk.pc = "done" =>
        CASE variant = "tikwm" ->
                walk.error \in {None, "notfound", "failed"}
                /\ NoRepeats(walk.videos)
          [] variant = "countik" ->
                IF walk.error = None
                THEN walk.videos # <<>> /\ NoRepeats(walk.videos)
                ELSE walk.error = "failed"
          [] variant = "browser" ->
                IF walk.error = None THEN walk.videos # <<>>
                ELSE walk.error = "failed"

\* tikwm returns an empty list, not an error, when the first page request
\* fails inside the page
TikwmEmptySuccess ==
    /\ variant = "tikwm"
    /\ Returned
    /\ walk.videos = <<>>
    /\ seen.log # <<>>
    /\ seen.log[1].cls = "network"

\* C7: a page whose items were already seen does not duplicate them: the
\* result of a harvest holds every item id at most once.
C7_ResultHasNoDuplicates ==
    Returned => NoRepeats(walk.videos)

\* the source held by the claim: every answer a page, hasMore false on the
\* last one (Page), fewer videos than the target
SourceHoldsLessThanTarget ==
    /\ variant \in {"tikwm", "browser"}
    /\ walk.pc = "done"
    /\ seen.honest
    /\ source.held < TARGET_VIDEO_COUNT

\* C8 as stated: a source holding N < target videos, hasMore=false on the last
\* page, yields exactly those N videos and no error.
C8_ReturnsAllHeld ==
    SourceHoldsLessThanTarget =>
        walk.error = None /\ walk.videos = Range(1, source.held)

\* C8 as amended: the same for 1 <= N < target served in full pages (which
\* reaches the last page within the iteration cap).
C8_ReturnsAllHeldFullPages ==
    (SourceHoldsLessThanTarget /\ source.held >= 1 /\ seen.full) =>
        walk.error = None /\ walk.videos = Range(1, source.held)

\* the part of the amendment the cap forces: with N >= 1 and short pages
C8_ReturnsAllHeldNonEmpty ==
    (SourceHoldsLessThanTarget /\ source.held >= 1) =>
        walk.error = None /\ walk.videos = Range(1, source.held)

\* a harvest of several full pages that returned all the source held
C8_Witness ==
    /\ SourceHoldsLessThanTarget
    /\ seen.full
    /\ source.held > PAGE_COUNT
    /\ walk.videos = Range(1, source.held)

\* C9: once the source stops returning new items while still signalling more
\* pages, the walker stops within the stall limit: it never runs more than
\* StallLimit iterations in a row that bring nothing new.
C9_StallStopsWalker ==
    variant \in {"tikwm", "countik"} => seen.stall <= StallLimit

\* the countik loop alone does stop at the limit
C9_CountikStallStops ==
    variant = "countik" =>
        /\ seen.stall <= StallLimit
        /\ walk.consecutiveNoLoad <= StallLimit
        /\ (walk.pc = "loop" => walk.consecutiveNoLoad < StallLimit)

\* C18: a harvest makes a bounded number of page requests whatever the source
\* answers: never more than the iteration cap.
C18_RequestsBounded ==
    seen.requests <= RequestCap

\* the loops that do have a cap: tikwm at MAX_LOOPS, countik at maxLoops
C18_CappedLoopsBounded ==
    /\ variant = "tikwm" => seen.requests <= MAX_LOOPS
    /\ variant = "countik" => seen.requests <= maxLoops + 1

\* C19: a harvest never returns an empty list as a success: a loop that ends
\* with nothing collected and no not-found signal makes the harvest fail.
C19_EmptyResultIsError ==
    (walk.pc = "done" /\ walk.error = None) => walk.videos # <<>>

\* C20: a loop stopped by the stall limit or by the iteration cap with at
\* least one item collected makes the harvest return the collected items as
\* a success.
C20_PartialResultIsSuccess ==
    (/\ walk.pc = "done"
     /\ seen.stop \in {"cap", "stall"}
     /\ walk.allVideos # <<>>) =>
        /\ walk.error = None
        /\ SeqToSet(walk.videos) = SeqToSet(walk.allVideos)
        /\ NoRepeats(walk.videos)

\* the tikwm loop ran to its cap with videos collected and returned them
C20_Witness ==
    /\ variant = "tikwm"
    /\ walk.pc = "done"
    /\ seen.stop = "cap"
    /\ walk.loops = MAX_LOOPS
    /\ walk.videos # <<>>

\* the countik loop stopped on its stall limit and returned what it held
C20_StallWitness ==
    /\ variant = "countik"
    /\ walk.pc = "done"
    /\ seen.stop = "stall"
    /\ walk.error = None
    /\ walk.videos # <<>>

\* the classifications CHALLENGE, CHALLENGE, OK of the first three attempts
ChallengeChallengeOk ==
    /\ variant = "browser"
    /\ Len(seen.log) >= 3
    /\ seen.log[1].cls = "challenge"
    /\ seen.log[2].cls = "challenge"
    /\ seen.log[3].cls = "ok"

\* C10: on CHALLENGE, CHALLENGE, OK the harvest escalates from the headless
\* mode to the headful mode exactly once, takes the payload of the third
\* attempt, and is never back in the headless mode.
C10_EscalatesOnce ==
    ChallengeChallengeOk =>
        /\ seen.escalations = 1
        /\ seen.log[1].mode = "stealth"
        /\ seen.log[2].mode = "escalated"
        /\ seen.log[3].mode = "escalated"
        /\ seen.log[3].got = seen.log[3].n
        /\ walk.forceHeadful

\* the harvest returned the payload of the third attempt
C10_Witness ==
    ChallengeChallengeOk /\ seen.log[3].n > 0 /\ Returned

\* ------------------------------------------------------------------ claims on Spec
IdsOf(l) == {l[i].id : i \in DOMAIN l}

\* a harvest applied without a baseline reset: a /views request, or the
\* 30-minute job of the browser variant
NonResetApplied ==
    /\ last.kind \in {"views", "refresh"}
    /\ last.result.error = None
    /\ last.fresh

\* C1: a harvest applied without a baseline reset leaves the stored baseline
\* of every already-recorded item of the subject as it was.
C1_NonResetKeepsBaseline ==
    (NonResetApplied /\ DOMAIN last.before # {}) =>
        \A id \in (DOMAIN last.before) \cap (DOMAIN last.after) :
            last.after[id] = last.before[id]

\* C2: after a baseline-reset harvest was applied, every item of that harvest
\* has change 0 and changePercent 0 against the baseline the reset stored,
\* whatever the baseline was before.
C2_ResetYieldsZeroChange ==
    last.kind = "reset" =>
        \A i \in DOMAIN last.result.videos :
            LET d == DiffVideo(variant, last.after, last.result.videos[i])
            IN  d.change = 0 /\ d.changePercent = 0

\* a reset was applied to a subject whose baseline differed from the harvest
C2_Witness ==
    /\ last.kind = "reset"
    /\ \E i \in DOMAIN last.result.videos :
          LET v == last.result.videos[i]
          IN  /\ v.id \in DOMAIN last.before
              /\ last.before[v.id] # v.numericViews

\* C3: in a non-reset harvest an item with stored baseline b and metric m is
\* answered with change = m - b and changePercent = (change / b) * 100 rounded
\* to two decimals when b > 0, 100 when b = 0 and change > 0, and 0 otherwise.
C3_DiffFormula ==
    (last.kind = "views" /\ last.result.error = None /\ last.fresh) =>
        \A i \in DOMAIN last.result.videos :
            LET m == last.result.videos[i].numericViews
                id == last.result.videos[i].id
            IN  id \in DOMAIN last.prev =>
                    LET b == last.prev[id]
                    IN  /\ last.videos[i].change = m - b
                        /\ last.videos[i].changePercent =
                              IF b > 0 THEN ToFixed2((m - b) * 100, b)
                              ELSE IF m - b > 0 THEN 100 * 100
                              ELSE 0

\* C4: an item with a stored baseline that the harvest did not see keeps its
\* entry: no harvest application deletes or alters it.
C4_UnseenItemsKept ==
    (last.kind \in {"views", "reset", "refresh"} /\ last.fresh) =>
        \A id \in (DOMAIN last.before) \ IdsOf(last.result.videos) :
            /\ id \in DOMAIN last.after
            /\ last.after[id] = last.before[id]

\* C5: a /views harvest that fails for a subject with a non-empty persisted
\* baseline is answered with the stored items, isCached: true and a success
\* status.
C5_FailureWithBaselineIsCached ==
    (/\ last.kind = "views"
     /\ last.result.error = "failed"
     /\ last.fresh
     /\ DOMAIN last.before # {}) =>
        /\ last.isCached
        /\ last.status = 200
        /\ last.videos = FallbackVideos(last.before)

\* the /views requests waiting on a harvest of subject u
HarvestsInProgress(u) ==
    {s \in Slots : slots[s].pc = "scrape" /\ slots[s].user = u}

\* C11: at most one harvest of a subject is in progress at any time (a second
\* request for the subject is queued or rejected while the first one runs).
C11_OneHarvestPerSubject ==
    \A u \in Handles : Cardinality(HarvestsInProgress(u)) <= 1

\* the subject's map as a handler leaves it when it applies harvest r to the
\* map `stored' it finds at the time the harvest completes
AppliedAtCompletion(v, stored, user, r) ==
    LET a == ViewsAnswer(v, Put(EmptyObj, user, stored), user, r)
    IN  IF a.save THEN UserHistory(a.globalHistory, user) ELSE stored

\* C12: harvest results are applied to a subject's baseline in the order the
\* harvests complete: a handler whose read of the subject's stored state went
\* stale through an interleaved write leaves the baseline as applying its
\* harvest to the newer state would, never as its stale read dictates.
C12_StaleReadNeverOverwrites ==
    (last.kind = "views" /\ ~last.fresh /\ last.result.videos # <<>>) =>
        last.after = AppliedAtCompletion(variant, last.before, last.user, last.result)

\* C13: the step of the /views handler that takes a request leaves the handle,
\* '@' stripped and trimmed, in the watch list, and the watch list never holds
\* a handle twice.
C13_WatchListHoldsHandleOnce ==
    /\ [](watched # None => \A i, j \in DOMAIN watched :
                                watched[i] = watched[j] => i = j)
    /\ [][\A s \in Slots :
            (slots[s].pc = "idle" /\ slots'[s].pc = "scrape") =>
                /\ watched' # None
                /\ slots'[s].user \in SeqToSet(watched')
                /\ slots'[s].user \in Handles]_vars

\* two /views requests for "@a" and "a " were taken and the list holds a once
C13_Witness ==
    /\ Cardinality(HarvestsInProgress(<<"a">>)) = 2
    /\ watched = << <<"a">> >>

\* C14: DELETE /watched/:username answers 404 when the watch list is absent
\* or empty; otherwise it answers success and the list is the one it found
\* without the handle, every other handle in place.
C14_DeleteAnswers ==
    last.kind = "delete" =>
        IF last.list = None \/ last.list = <<>>
        THEN last.status = 404
        ELSE last.status = 200 /\ watched = Without(last.list, last.user)

\* what DELETE does do: the handle is gone, the other handles stay in order
C14_DeleteRemovesHandle ==
    (last.kind = "delete" /\ last.list # None) =>
        watched = Without(last.list, last.user)

\* a /views harvest applied to a subject with no stored baseline
FirstHarvest ==
    /\ last.kind = "views"
    /\ last.result.error = None
    /\ DOMAIN last.before = {}
    /\ DOMAIN last.prev = {}

\* every item answered with change 0 / 0 and stored with its metric
AllStoredUnchanged ==
    \A i \in DOMAIN last.result.videos :
        /\ last.videos[i].change = 0
        /\ last.videos[i].changePercent = 0
        /\ last.result.videos[i].id \in DOMAIN last.after
        /\ last.after[last.result.videos[i].id] =
              last.result.videos[i].numericViews

\* C15: on the first harvest of a subject every harvested item gets a stored
\* baseline equal to its metric and is answered with change 0, changePercent 0.
C15_FirstHarvestStoresBaseline ==
    FirstHarvest => AllStoredUnchanged

\* the same for a harvest that holds every id once
C15_FirstHarvestUniqueIds ==
    (FirstHarvest /\ UniqueIds(last.result.videos)) => AllStoredUnchanged

\* C16: for a subject with a baseline, an item a non-reset harvest sees for
\* the first time is answered with change 0 and stored with its metric as its
\* baseline.
C16_NewItemGetsBaseline ==
    (/\ last.kind = "views"
     /\ last.result.error = None
     /\ last.fresh
     /\ DOMAIN last.before # {}) =>
        \A i \in DOMAIN last.result.videos :
            last.result.videos[i].id \notin DOMAIN last.prev =>
                /\ last.videos[i].change = 0
                /\ last.result.videos[i].id \in DOMAIN last.after
                /\ last.after[last.result.videos[i].id] =
                      last.result.videos[i].numericViews

\* a harvest that failed: it threw, or it collected nothing (EmptyResult)
HarvestFailed(r) == r.error # None \/ r.videos = <<>>

\* C6: a /views harvest that fails for a subject with no persisted prior state
\* is answered with an error payload and a failure status, never with a
\* success carrying an empty video list.
C6_FailureWithoutStateIsError ==
    (/\ last.kind = "views"
     /\ HarvestFailed(last.result)
     /\ DOMAIN last.before = {}
     /\ DOMAIN last.prev = {}) =>
        /\ last.status >= 400
        /\ ~last.isCached

\* the part of C6 the three handlers do satisfy: a harvest that threw
C6_ThrownErrorIsError ==
    (/\ last.kind = "views"
     /\ last.result.error # None
     /\ DOMAIN last.prev = {}) =>
        /\ last.status >= 400
        /\ last.videos = <<>>

\* ------------------------------------------------------------------ claims on the harvest's errors
\* C21: a tikwm harvest that the source answered with a not-found answer (a
\* code other than 0) ends with the not-found error and returns no list.
C21_NotFoundAborts ==
    (variant = "tikwm" /\ seen.stop = "notfound" /\ walk.pc = "done") =>
        /\ walk.error = "notfound"
        /\ walk.videos = <<>>

\* C21, the part on requests: after a not-found answer the tikwm harvest
\* makes no further page request.
C21_NoRequestAfterNotFound ==
    [][(variant = "tikwm" /\ seen.stop = "notfound") => walk'.loops = walk.loops]_vars

\* the not-found answer came on the first page and the harvest threw
C21_Witness ==
    /\ variant = "tikwm"
    /\ seen.stop = "notfound"
    /\ walk.pc = "done"
    /\ walk.error = "notfound"

\* the step is an escalation of the browser harvest
Escalates ==
    /\ variant = "browser"
    /\ ~walk.forceHeadful
    /\ walk'.forceHeadful

\* C22: when a browser harvest in the headless mode meets a challenge, it goes
\* on in the headful mode with the same cursor and the videos collected so
\* far, at the page request it was making.
C22_EscalationKeepsRequest ==
    [][Escalates =>
          /\ walk'.pc = "loop"
          /\ walk'.cursor = walk.cursor
          /\ walk'.allVideos = walk.allVideos]_vars

\* C22, the part on the mode: an escalation is taken in the headless mode on a
\* challenge only, and leaves the harvest at a page request in the headful mode.
C22_EscalationReopensHeadful ==
    [][Escalates =>
          /\ walk.pc = "loop"
          /\ walk'.pc = "loop"
          /\ seen'.escalations = seen.escalations + 1]_vars

\* an escalation taken after a page was collected
C22_Witness ==
    /\ variant = "browser"
    /\ walk.forceHeadful
    /\ walk.outerVideos # <<>>

\* C23: a browser harvest whose wait for the CAPTCHA in the headful mode timed
\* out ends with an error and returns no list, whatever it had collected.
C23_TimeoutFails ==
    (variant = "browser" /\ seen.stop = "timeout" /\ walk.pc = "done") =>
        /\ walk.error = "failed"
        /\ walk.videos = <<>>

\* C23, with nothing collected by either call: the timed-out harvest ends with
\* an error.
C23_TimeoutWithNothingFails ==
    (/\ variant = "browser"
     /\ seen.stop = "timeout"
     /\ walk.pc = "done"
     /\ walk.allVideos = <<>>
     /\ walk.outerVideos = <<>>) =>
        /\ walk.error = "failed"
        /\ walk.videos = <<>>

\* the wait timed out before anything was collected, and the harvest failed
C23_Witness ==
    /\ variant = "browser"
    /\ seen.stop = "timeout"
    /\ walk.pc = "done"
    /\ walk.error = "failed"

\* ------------------------------------------------------------------ claims on the store under interleaving
\* the step writes history.json on behalf of the subject last'.user
WritesFor ==
    /\ last = NoStep
    /\ last'.kind \in {"views", "refresh"}
    /\ last'.wrote

\* C26: a /views handler or a turn of the 30-minute job that writes the
\* baseline of its own subject leaves the stored baseline of every other
\* subject as it is in the file at that moment.
C26_WriteKeepsOtherSubjects ==
    [][WritesFor =>
          \A u \in Handles \ {last'.user} :
              UserHistory(history', u) = UserHistory(history, u)]_vars

\* C26, the subject's own key: what the write leaves under the key of its
\* subject is the map the step computed (the last writer wins).
C26_LastWriterWins ==
    [][WritesFor => UserHistory(history', last'.user) = last'.after]_vars

\* two handlers for different subjects have both written
C26_Witness ==
    /\ last.kind = "views"
    /\ last.wrote
    /\ \E u \in Handles \ {last.user} : UserHistory(history, u) # EmptyObj

\* the step handles a harvest that failed: an error, or no videos in a
\* scheduled job
FailedTurn ==
    /\ last = NoStep
    /\ \/ last'.kind = "views" /\ last'.result.error # None
       \/ last'.kind \in {"reset", "refresh"} /\ HarvestFailed(last'.result)

\* the step is the end of a run of the scheduled job
JobEnds == cron.pc = "run" /\ cron'.pc = "idle"

\* C29: a failed harvest leaves the stored baseline of its subject as it is:
\* the step that handles the failure does not change it, and neither does the
\* end of the run of the scheduled job in which the harvest failed.
C29_FailedHarvestLeavesStore ==
    [][/\ FailedTurn =>
            UserHistory(history', last'.user) = UserHistory(history, last'.user)
       /\ JobEnds =>
            \A u \in cron.failed :
                UserHistory(history', u) = UserHistory(history, u)]_vars

\* C29, the step of the failure alone: it writes nothing to history.json
\* and leaves the subject's map in the job's object as it was.
C29_FailedTurnWritesNothing ==
    [][FailedTurn =>
          /\ history' = history
          /\ last'.after = last'.before
          /\ ~last'.wrote]_vars

\* a failed turn of the scheduled job for a subject that has a stored baseline
C29_Witness ==
    /\ last.kind \in {"reset", "refresh"}
    /\ HarvestFailed(last.result)
    /\ UserHistory(history, last.user) # EmptyObj

\* ------------------------------------------------------------------ claims on the browser session
\* C27: whenever isBrowserReady is true, the persistent context and its main
\* page exist.
C27_ReadyImpliesSession ==
    session.isBrowserReady =>
        session.browserContext # None /\ session.mainPage # None

\* C27, the request itself: a harvest at a page request has a main page to
\* make it on.
C27_RequestHasPage ==
    session.fetch.pc = "loop" => session.mainPage # None

\* the session is ready and whole, and a harvest is at a page request
C27_Witness ==
    /\ session.isBrowserReady
    /\ session.browserContext # None
    /\ session.mainPage # None
    /\ session.fetch.pc = "loop"

\* the calls of initBrowser or getBrowser whose launch has not settled yet
LaunchesInFlight == {c \in Callers : session.init[c].pc = "launch"}

\* C28: no two launches of the browser are in flight at once: a call of
\* initBrowser or getBrowser made while a launch is awaited starts no other.
C28_OneLaunchAtATime == Cardinality(LaunchesInFlight) <= 1

\* a second call is made while a launch is in flight
C28_Witness ==
    /\ LaunchesInFlight # {}
    /\ \E c \in Callers \ LaunchesInFlight : session.init[c].pc # "idle"

\* C25: a harvest that the caller sees fail on an expired session has been
\* answered with the block page at least twice: once before the retry and
\* once in it.
C25_ExpiredSessionRetried ==
    (session.fetch.pc = "done" /\ session.fetch.error = "expired") =>
        session.fetch.blocks >= 2

\* C25, the fresh session: a step that handles the block page leaves a launch
\* of a new context in flight or done.
C25_ExpiredSessionReopened ==
    [][(session.fetch.pc = "loop" /\ session'.fetch.error = "expired") =>
          session'.browserContext = None \/ LaunchesInFlight # {}]_vars

\* a harvest was answered with the block page
C25_Witness ==
    /\ session.fetch.pc = "done"
    /\ session.fetch.error = "expired"
    /\ session.timer

\* C24, session initialisation: a call of initBrowser makes at most 3
\* attempts on the challenge page, and the third one that fails ends the call
\* with the session marked not ready.
C24_InitAttemptsBounded ==
    [][\A c \in TikwmCallers :
          /\ session'.init[c].attempts <= InitAttempts
          /\ (session.init[c].attempts < InitAttempts
              /\ session'.init[c].attempts = InitAttempts) =>
                 session'.init[c].pc = "done" /\ ~session'.isBrowserReady]_vars

\* a call of initBrowser has given up after its third attempt
C24_InitWitness ==
    \E c \in TikwmCallers :
        session.init[c].pc = "done" /\ session.init[c].attempts = InitAttempts

\* C24, the harvest: a browser harvest waits for the CAPTCHA to be solved at
\* most once.
C24_OneManualWait == variant = "browser" => seen.waits <= 1

\* C24, the escalation: a browser harvest escalates at most once, and once
\* in the headful mode it never escalates again.
C24_OneEscalation ==
    /\ seen.escalations <= 1
    /\ walk.forceHeadful => seen.escalations = 1

\* the harvest is waiting for the CAPTCHA to be solved
C24_WaitWitness ==
    variant = "browser" /\ walk.pc = "wait" /\ seen.waits = 1

====
